---- MODULE Spec2Model ----
(***************************************************************************)
(* A model of datacaster's CastDataClass: the construction pipeline of     *)
(* classes.py (__init__), the annotation interpreter of                    *)
(* annotation_tools.py and the primitive casters of value_cast.py.         *)
(*                                                                         *)
(* A Python value is the pair <<kind, payload>>: the name of the value's   *)
(* class and what it holds.  Text is a sequence of one-character strings   *)
(* so that str(), int() and float() are computed and not assumed.  A float *)
(* holds <<negative, tenths>> (one fractional digit, signed zero kept).    *)
(***************************************************************************)
EXTENDS Integers, Sequences, FiniteSets, TLC

(***************************************************************************)
(* Bounds of the model.                                                    *)
(***************************************************************************)
\* Longest list or tuple a request supplies.
MaxLen == 2

(***************************************************************************)
(* Python values.                                                          *)
(***************************************************************************)
Kind(x) == x[1]
Payload(x) == x[2]
None == <<"NoneType", <<>>>>
Bool(b) == <<"bool", b>>
IntV(n) == <<"int", n>>
FloatV(neg, tenths) == <<"float", <<neg, tenths>>>>
Str(s) == <<"str", s>>
BytesV(s) == <<"bytes", s>>
ListV(xs) == <<"list", xs>>
TupleV(xs) == <<"tuple", xs>>
\* Stands for "no value at all" in a report (not a Python value).
NoValue == <<"absent", <<>>>>

DigitChars == <<"0", "1", "2", "3", "4", "5", "6", "7", "8", "9">>
IsDigit(c) == \E d \in 1..Len(DigitChars) : DigitChars[d] = c
DigitVal(c) == (CHOOSE d \in 1..Len(DigitChars) : DigitChars[d] = c) - 1
DigitChar(d) == DigitChars[d + 1]

RECURSIVE NatDigits(_)
NatDigits(n) ==
    IF n < 10 THEN <<DigitChar(n)>>
    ELSE NatDigits(n \div 10) \o <<DigitChar(n % 10)>>

RECURSIVE DigitsValue(_)
DigitsValue(s) ==
    IF s = <<>> THEN 0
    ELSE 10 * DigitsValue(SubSeq(s, 1, Len(s) - 1)) + DigitVal(s[Len(s)])

AllDigits(s) == \A i \in 1..Len(s) : IsDigit(s[i])

\* str.strip() of the blanks at both ends.
RECURSIVE Strip(_)
Strip(s) ==
    IF s # <<>> /\ s[1] = " " THEN Strip(Tail(s))
    ELSE IF s # <<>> /\ s[Len(s)] = " " THEN Strip(SubSeq(s, 1, Len(s) - 1))
    ELSE s

IsSign(c) == c \in {"-", "+"}
Unsigned(s) == IF s # <<>> /\ IsSign(s[1]) THEN Tail(s) ELSE s
Negative(s) == s # <<>> /\ s[1] = "-"

\* int(text): blanks stripped, an optional sign, then one or more decimal
\* digits (texts of the model hold no "_" digit separators).
IntLiteral(s) ==
    LET body == Unsigned(Strip(s)) IN body # <<>> /\ AllDigits(body)
IntLiteralValue(s) ==
    LET t == Strip(s)
        n == DigitsValue(Unsigned(t))
    IN IF Negative(t) THEN 0 - n ELSE n

\* float(text): blanks stripped, an optional sign, digits with at most one
\* "." and at least one digit (texts of the model hold no exponent, "inf"
\* or "nan", and at most one fractional digit).
DotAt(s) == {i \in 1..Len(s) : s[i] = "."}
FloatLiteral(s) ==
    LET body == Unsigned(Strip(s))
        dots == DotAt(body)
    IN /\ Cardinality(dots) <= 1
       /\ \A i \in 1..Len(body) : IsDigit(body[i]) \/ body[i] = "."
       /\ \E i \in 1..Len(body) : IsDigit(body[i])
       /\ \A d \in dots : Len(body) - d <= 1
FloatLiteralValue(s) ==
    LET t == Strip(s)
        body == Unsigned(t)
        dots == DotAt(body)
        d == IF dots = {} THEN Len(body) + 1 ELSE CHOOSE i \in dots : TRUE
        whole == DigitsValue(SubSeq(body, 1, d - 1))
        frac == IF d < Len(body) THEN DigitVal(body[d + 1]) ELSE 0
    IN FloatV(Negative(t), 10 * whole + frac)

\* repr(float) / str(float).
FloatText(f) ==
    (IF f[1] THEN <<"-">> ELSE <<>>)
        \o NatDigits(f[2] \div 10) \o <<".">> \o <<DigitChar(f[2] % 10)>>

\* A rendering that loses the sign.
IntText_unsigned(n) == IF n < 0 THEN NatDigits(0 - n) ELSE NatDigits(n)

\* str(int).
IntText(n) == IF n < 0 THEN <<"-">> \o NatDigits(0 - n) ELSE NatDigits(n)

RECURSIVE Join(_, _)
Join(parts, sep) ==
    IF parts = <<>> THEN <<>>
    ELSE IF Len(parts) = 1 THEN parts[1]
    ELSE parts[1] \o sep \o Join(Tail(parts), sep)

\* repr(value); text and bytes of the model hold no quote or backslash.
RECURSIVE PyRepr(_)
PyRepr(x) ==
    CASE Kind(x) = "NoneType" -> <<"N", "o", "n", "e">>
      [] Kind(x) = "bool" -> IF Payload(x) THEN <<"T", "r", "u", "e">>
                         ELSE <<"F", "a", "l", "s", "e">>
      [] Kind(x) = "int" -> IntText(Payload(x))
      [] Kind(x) = "float" -> FloatText(Payload(x))
      [] Kind(x) = "str" -> <<"'">> \o Payload(x) \o <<"'">>
      [] Kind(x) = "bytes" -> <<"b", "'">> \o Payload(x) \o <<"'">>
      [] Kind(x) = "list" ->
            <<"[">> \o Join([i \in 1..Len(Payload(x)) |-> PyRepr(Payload(x)[i])], <<",", " ">>)
                \o <<"]">>
      [] Kind(x) = "tuple" ->
            <<"(">> \o Join([i \in 1..Len(Payload(x)) |-> PyRepr(Payload(x)[i])], <<",", " ">>)
                \o (IF Len(Payload(x)) = 1 THEN <<",">> ELSE <<>>) \o <<")">>

\* str(value): a text is itself, everything else is its repr.
PyStr(x) == IF Kind(x) = "str" THEN Payload(x) ELSE PyRepr(x)

(***************************************************************************)
(* value_cast.py: the built-in casters.  PyInt and PyFloat are Python's    *)
(* int(value) and float(value), str(value) is PyStr: [ok, val], ok = FALSE *)
(* when the conversion raises (ValueError, TypeError).                     *)
(***************************************************************************)
Ok(x) == [ok |-> TRUE, val |-> x]
Failed == [ok |-> FALSE, val |-> None]

PyInt(value) ==
    CASE Kind(value) = "bool" -> Ok(IntV(IF Payload(value) THEN 1 ELSE 0))
      [] Kind(value) = "int" -> Ok(value)
      [] Kind(value) = "float" ->
            Ok(IntV(IF Payload(value)[1] THEN 0 - (Payload(value)[2] \div 10)
                    ELSE Payload(value)[2] \div 10))
      [] Kind(value) \in {"str", "bytes"} ->
            IF IntLiteral(Payload(value)) THEN Ok(IntV(IntLiteralValue(Payload(value))))
            ELSE Failed
      [] OTHER -> Failed

PyFloat(value) ==
    CASE Kind(value) = "bool" -> Ok(FloatV(FALSE, IF Payload(value) THEN 10 ELSE 0))
      [] Kind(value) = "int" ->
            Ok(FloatV(Payload(value) < 0,
                      10 * (IF Payload(value) < 0 THEN 0 - Payload(value) ELSE Payload(value))))
      [] Kind(value) = "float" -> Ok(value)
      [] Kind(value) \in {"str", "bytes"} ->
            IF FloatLiteral(Payload(value)) THEN Ok(FloatLiteralValue(Payload(value)))
            ELSE Failed
      [] OTHER -> Failed

\* A wrapper that lets the conversion's own error through.
raise_on_fail_unwrapped(r) ==
    [exc |-> IF r.ok THEN "none" ELSE "ValueError", val |-> r.val]

\* raise_on_fail: any exception of the wrapped conversion becomes CastFailed.
raise_on_fail(r) ==
    [exc |-> IF r.ok THEN "none" ELSE "CastFailed", val |-> r.val]

cast_to_string(value) == raise_on_fail(Ok(Str(PyStr(value))))
cast_to_int(value) == raise_on_fail(PyInt(value))
cast_to_float(value) == raise_on_fail(PyFloat(value))

\* The keys of ANNOTATION_CAST_FUNCTIONS.
ANNOTATION_CAST_FUNCTIONS == {"str", "int", "float"}

\* cast_simple_type: [exc, val]; a target outside the table is a KeyError
\* of the table lookup, raised before any cast function is called.
cast_simple_type(expected_type, value) ==
    IF ~(expected_type.form = "class"
            /\ expected_type.name \in ANNOTATION_CAST_FUNCTIONS)
    THEN [exc |-> "KeyError", val |-> None]
    ELSE CASE expected_type.name = "str" -> cast_to_string(value)
           [] expected_type.name = "int" -> cast_to_int(value)
           [] expected_type.name = "float" -> cast_to_float(value)

(***************************************************************************)
(* Type annotations: [form, name, args].  form "class" is a plain class    *)
(* (not a typing._GenericAlias); "Union", "List" and "Tuple" are typing    *)
(* forms with their __args__; "None" is the literal None written as an     *)
(* annotation.                                                             *)
(***************************************************************************)
Class(n) == [form |-> "class", name |-> n, args |-> <<>>]
NoneAnnotation == [form |-> "None", name |-> "None", args |-> <<>>]
NoneType == Class("NoneType")
UnionOf(ts) == [form |-> "Union", name |-> "Union", args |-> ts]
ListOf(t) == [form |-> "List", name |-> "List", args |-> <<t>>]
TupleOf(ts) == [form |-> "Tuple", name |-> "Tuple", args |-> ts]
Callable == [form |-> "Callable", name |-> "Callable", args |-> <<>>]

\* A parse_annotation that returns every annotation as it is.
parse_annotation_unchanged(annotation) == annotation

\* annotation_tools.parse_annotation: `annotation or annotation.__class__`.
parse_annotation(annotation) ==
    IF annotation.form = "None" THEN NoneType ELSE annotation

is_custom_type(annotation) == annotation.form \notin {"class", "None"}

get_origin(annotation) == annotation.form

is_collection(annotation) == get_origin(annotation) \in {"Tuple", "List"}

\* A get_custom_type_classes that takes a Union of two types without
\* NoneType.
get_custom_type_classes_any_union(annotation) ==
    LET args == annotation.args
        unsupported == [exc |-> "UnsupportedCast", types |-> <<>>]
        found == [exc |-> "none", types |-> args]
    IN IF is_collection(annotation)
       THEN IF is_custom_type(args[1]) THEN unsupported ELSE found
       ELSE IF get_origin(annotation) = "Union"
       THEN IF Len(args) > 2 THEN unsupported
            ELSE IF \E i \in 1..Len(args) : is_custom_type(args[i]) THEN unsupported
            ELSE found
       ELSE unsupported

\* annotation_tools.get_custom_type_classes: [exc, types].
get_custom_type_classes(annotation) ==
    LET args == annotation.args
        unsupported == [exc |-> "UnsupportedCast", types |-> <<>>]
        found == [exc |-> "none", types |-> args]
    IN IF is_collection(annotation)
       THEN IF is_custom_type(args[1]) THEN unsupported ELSE found
       ELSE IF get_origin(annotation) = "Union"
       THEN IF Len(args) > 2 THEN unsupported
            ELSE IF ~(\E i \in 1..Len(args) : args[i] = NoneType) THEN unsupported
            ELSE IF \E i \in 1..Len(args) : is_custom_type(args[i]) THEN unsupported
            ELSE found
       ELSE unsupported

\* typeguard.check_type(argname, value, expected_type): TRUE when it returns,
\* FALSE when it raises TypeError.  A bool is an int, float accepts an int
\* (numeric tower), List[T] wants a list of T, Tuple[T1..Tn] a tuple of
\* exactly n items, Callable a callable (no value of the model is one).
RECURSIVE check_type(_, _)
check_type(value, annotation) ==
    CASE annotation.form = "class" ->
            (CASE annotation.name = "int" -> Kind(value) \in {"int", "bool"}
               [] annotation.name = "float" -> Kind(value) \in {"float", "int", "bool"}
               [] OTHER -> Kind(value) = annotation.name)
      [] annotation.form = "None" -> Kind(value) = "NoneType"
      [] annotation.form = "Union" ->
            \E i \in 1..Len(annotation.args) : check_type(value, annotation.args[i])
      [] annotation.form = "List" ->
            /\ Kind(value) = "list"
            /\ \A i \in 1..Len(Payload(value)) : check_type(Payload(value)[i], annotation.args[1])
      [] annotation.form = "Tuple" ->
            /\ Kind(value) = "tuple"
            /\ Len(Payload(value)) = Len(annotation.args)
            /\ \A i \in 1..Len(Payload(value)) : check_type(Payload(value)[i], annotation.args[i])
      [] OTHER -> FALSE

(***************************************************************************)
(* Python dicts keep insertion order: a dict is a sequence of [key, val].  *)
(***************************************************************************)
DictKeys(d) == {d[i].key : i \in 1..Len(d)}
DictHas(d, key) == key \in DictKeys(d)
DictGet(d, key) == d[CHOOSE i \in 1..Len(d) : d[i].key = key].val
DictSet(d, key, val) ==
    IF DictHas(d, key)
    THEN [i \in 1..Len(d) |-> IF d[i].key = key THEN [key |-> key, val |-> val]
                              ELSE d[i]]
    ELSE Append(d, [key |-> key, val |-> val])

(***************************************************************************)
(* The class under construction and one run of CastDataClass.__init__.     *)
(*                                                                         *)
(* Class level (set by the class statement, read by every construction):   *)
(*   annotations           __annotations__, in declaration order           *)
(*   class_defaults        the class attributes named like a field         *)
(*   methods               the fields f with a method __cast_f__           *)
(*   field_cast_functions  __field_cast_functions__: field -> parameters   *)
(*   type_cast_functions   __type_cast_functions__: annotation -> params   *)
(*   SET_MISSING_NONE, IGNORE_EXTRA   "unset", "True" or "False"           *)
(* One construction:                                                       *)
(*   pc                    "idle", "loop", "apply", "done", "raised"       *)
(*   kwargs                the keyword arguments of the call               *)
(*   new_class_attributes  the dict of that name; defaulted_attributes is  *)
(*                         the same object (line 140)                      *)
(*   i                     position of the main loop in annotations        *)
(*   j                     position of the closing loop (lines 312-313)    *)
(*   self_dict             the instance's __dict__                         *)
(*   raised                the exception leaving __init__, if any          *)
(*   calls                 the cast functions called so far, in order      *)
(***************************************************************************)
VARIABLES annotations, class_defaults, methods, field_cast_functions,
          type_cast_functions, SET_MISSING_NONE, IGNORE_EXTRA,
          rename_fields, always_cast,
          pc, request, kwargs, new_class_attributes, i, j, self_dict, raised, calls,
          declared_type, type_classes, parsed,
          cast_arg, casts, history

\* rename_fields and always_cast are the class configuration of the same
\* names; request is the keyword arguments as the caller passed them.
class_vars == <<annotations, class_defaults, methods, field_cast_functions,
                type_cast_functions, SET_MISSING_NONE, IGNORE_EXTRA,
                rename_fields, always_cast>>
call_vars == <<pc, request, kwargs, new_class_attributes, i, j, self_dict, raised, calls>>
\* The argument and the outcome of a call of annotation_tools; parsed holds
\* the results of parse_annotation applied to the argument and then to its
\* own result.
tool_vars == <<declared_type, type_classes, parsed>>
\* The argument of a call of value_cast.cast_simple_type and the casts made
\* from it, each one of the result of the one before.
cast_vars == <<cast_arg, casts>>
\* The constructions made against the class and left, in order: the keyword
\* arguments of each, the exception it raised and the instance it built.
history_vars == <<history>>
vars == <<class_vars, call_vars, tool_vars, cast_vars, history_vars>>

EmptyMap == [n \in {} |-> None]
NoException == [exc |-> "none", field |-> "", value |-> NoValue, names |-> {}]
Exception(exc, field, value, names) ==
    [exc |-> exc, field |-> field, value |-> value, names |-> names]

\* The outcome of one step of the loop: an exception, or a value with the
\* cast functions that were called to get it.
Raise(exc, field, value, done) ==
    [exc |-> exc, field |-> field, value |-> value, val |-> None, calls |-> done]
Resolved(val, done) ==
    [exc |-> "none", field |-> "", value |-> NoValue, val |-> val, calls |-> done]
CallOf(caster, field, arg, target) ==
    [caster |-> caster, field |-> field, arg |-> arg, target |-> target]

\* getattr(self, <flag>, True) with a default of False.
GetattrDefaultFalse(flag) == flag = "True"

\* getattr(self, "SET_MISSING_NONE", True), getattr(self, "IGNORE_EXTRA", True).
Getattr(flag) == IF flag = "unset" THEN TRUE ELSE flag = "True"

AnnotatedNames == {annotations[n].name : n \in 1..Len(annotations)}

\* _get_defaulted_attributes that forgets to leave out the supplied names.
get_defaulted_attributes_all(kw) ==
    LET withDefault ==
            SelectSeq(annotations, LAMBDA a : a.name \in DOMAIN class_defaults)
    IN [n \in 1..Len(withDefault) |->
            [key |-> withDefault[n].name, val |-> class_defaults[withDefault[n].name]]]

\* _get_default_values filtered by _get_defaulted_attributes: the defaults
\* of the fields that are not in kwargs, in declaration order.
get_defaulted_attributes(kw) ==
    LET falling ==
            SelectSeq(annotations,
                      LAMBDA a : a.name \in DOMAIN class_defaults
                                    /\ a.name \notin DOMAIN kw)
    IN [n \in 1..Len(falling) |->
            [key |-> falling[n].name, val |-> class_defaults[falling[n].name]]]

AnnotationOf(name) ==
    annotations[CHOOSE n \in 1..Len(annotations) : annotations[n].name = name].ann

\* _type_check_defaulted_values: the first default that fails check_type
\* raises InvalidDefaultValue.  The raw annotation is checked (line 106).
type_check_defaulted_values(defaulted_attributes) ==
    LET bad == {n \in 1..Len(defaulted_attributes) :
                    ~check_type(defaulted_attributes[n].val,
                                AnnotationOf(defaulted_attributes[n].key))}
        first == CHOOSE n \in bad : \A m \in bad : n <= m
    IN IF bad = {} THEN NoException
       ELSE Exception("InvalidDefaultValue", defaulted_attributes[first].key,
                      defaulted_attributes[first].val, {})

\* _get_unexpected_attributes that stops at the first unexpected name.
get_unexpected_attributes_first(kw) ==
    LET all == {name \in DOMAIN kw : name \notin AnnotatedNames}
    IN IF all = {} THEN {} ELSE {CHOOSE name \in all : TRUE}

\* _get_unexpected_attributes: the supplied names without an annotation.
get_unexpected_attributes(kw) == {name \in DOMAIN kw : name \notin AnnotatedNames}

\* _get_field_class_method: is there a method __cast_<field>__ ?
get_field_class_method(field_name) == field_name \in methods

\* _get_field_map_function and _get_type_map_function: [exc, found]; a
\* function that does not take one parameter raises CastFailed.
get_field_map_function(field_name) ==
    IF field_name \notin DOMAIN field_cast_functions
    THEN [exc |-> "none", found |-> FALSE]
    ELSE IF field_cast_functions[field_name] # 1
    THEN [exc |-> "CastFailed", found |-> FALSE]
    ELSE [exc |-> "none", found |-> TRUE]

get_type_map_function(type_annotation) ==
    IF type_annotation \notin DOMAIN type_cast_functions
    THEN [exc |-> "none", found |-> FALSE]
    ELSE IF type_cast_functions[type_annotation] # 1
    THEN [exc |-> "CastFailed", found |-> FALSE]
    ELSE [exc |-> "none", found |-> TRUE]

(***************************************************************************)
(* The override casters.  Every override of the model is the caster of the *)
(* repository's tests, `lambda x: [str(i) for i in x]`: it returns a list  *)
(* (never a value of the declared type of a simple field) and raises       *)
(* TypeError on a value that cannot be iterated.  Iterating bytes yields   *)
(* the byte codes; the bytes of the model hold digits only.                *)
(***************************************************************************)
ByteCode(c) == 48 + DigitVal(c)

OverrideCaster(x) ==
    CASE Kind(x) \in {"list", "tuple"} ->
            [exc |-> "none",
             val |-> ListV([n \in 1..Len(Payload(x)) |-> Str(PyStr(Payload(x)[n]))])]
      [] Kind(x) = "str" ->
            [exc |-> "none", val |-> ListV([n \in 1..Len(Payload(x)) |-> Str(<<Payload(x)[n]>>)])]
      [] Kind(x) = "bytes" ->
            [exc |-> "none",
             val |-> ListV([n \in 1..Len(Payload(x)) |-> Str(IntText(ByteCode(Payload(x)[n])))])]
      [] OTHER -> [exc |-> "TypeError", val |-> None]

\* An override whose exception is reported like a failure of the built-in
\* casters.
invoke_override_wrapped(caster, name, attribute_value) ==
    LET r == OverrideCaster(attribute_value)
        done == <<CallOf(caster, name, attribute_value, "")>>
    IN IF r.exc = "none" THEN Resolved(r.val, done)
       ELSE Raise("CastFailed", name, attribute_value, done)

\* Lines 211, 223, 234: the override is called with the value, its result
\* is stored as it is and its exception is not caught.
invoke_override(caster, name, attribute_value) ==
    LET r == OverrideCaster(attribute_value)
        done == <<CallOf(caster, name, attribute_value, "")>>
    IN IF r.exc = "none" THEN Resolved(r.val, done)
       ELSE Raise(r.exc, "", NoValue, done)

\* A lookup that asks __type_cast_functions__ before the field's own
\* definitions.
select_caster_type_first(name, annotation) ==
    LET method == get_field_class_method(name)
        field_map == get_field_map_function(name)
        type_map == get_type_map_function(annotation)
    IN IF field_map.exc # "none"
       THEN [exc |-> field_map.exc, caster |-> "none", field |-> name]
       ELSE IF method /\ field_map.found
       THEN [exc |-> "MultipleCastDefinitions", caster |-> "none", field |-> name]
       ELSE IF type_map.exc # "none"
       THEN [exc |-> type_map.exc, caster |-> "none", field |-> ""]
       ELSE IF type_map.found THEN [exc |-> "none", caster |-> "type", field |-> name]
       ELSE IF method THEN [exc |-> "none", caster |-> "method", field |-> name]
       ELSE IF field_map.found THEN [exc |-> "none", caster |-> "field", field |-> name]
       ELSE [exc |-> "none", caster |-> "builtin", field |-> name]

\* A lookup without the check of lines 192-201: the method wins silently.
select_caster_method_wins(name, annotation) ==
    LET method == get_field_class_method(name)
        field_map == get_field_map_function(name)
        type_map == get_type_map_function(annotation)
    IN IF field_map.exc # "none"
       THEN [exc |-> field_map.exc, caster |-> "none", field |-> name]
       ELSE IF method THEN [exc |-> "none", caster |-> "method", field |-> name]
       ELSE IF field_map.found THEN [exc |-> "none", caster |-> "field", field |-> name]
       ELSE IF type_map.exc # "none"
       THEN [exc |-> type_map.exc, caster |-> "none", field |-> ""]
       ELSE IF type_map.found THEN [exc |-> "none", caster |-> "type", field |-> name]
       ELSE [exc |-> "none", caster |-> "builtin", field |-> name]

\* Lines 190-237: which caster gets the value.  all([...]) builds its list
\* first, so the field function is looked up (and its parameter count
\* checked) whether or not a method exists.
select_caster(name, annotation) ==
    LET method == get_field_class_method(name)
        field_map == get_field_map_function(name)
        type_map == get_type_map_function(annotation)
    IN IF field_map.exc # "none"
       THEN [exc |-> field_map.exc, caster |-> "none", field |-> name]
       ELSE IF method /\ field_map.found
       THEN [exc |-> "MultipleCastDefinitions", caster |-> "none", field |-> name]
       ELSE IF method THEN [exc |-> "none", caster |-> "method", field |-> name]
       ELSE IF field_map.found THEN [exc |-> "none", caster |-> "field", field |-> name]
       ELSE IF type_map.exc # "none"
       THEN [exc |-> type_map.exc, caster |-> "none", field |-> ""]
       ELSE IF type_map.found THEN [exc |-> "none", caster |-> "type", field |-> name]
       ELSE [exc |-> "none", caster |-> "builtin", field |-> name]

\* One call of value_cast.cast_simple_type for a field: the cast function
\* is called when the table has the target; CastFailed names the field and
\* the value (raise_on_fail's message).
cast_outcome(name, valid_type, value, r) ==
    LET done == <<CallOf("builtin", name, value, valid_type.name)>>
    IN IF r.exc = "KeyError" THEN Raise("KeyError", "", NoValue, <<>>)
       ELSE IF r.exc # "none" THEN Raise(r.exc, name, value, done)
       ELSE Resolved(r.val, done)

cast_call(name, valid_type, value) ==
    cast_outcome(name, valid_type, value, cast_simple_type(valid_type, value))

\* _cast_simple (lines 241-254): a KeyError becomes UnsupportedCast.
except_KeyError(name, attribute_value, r) ==
    IF r.exc = "KeyError" THEN Raise("UnsupportedCast", name, attribute_value, <<>>)
    ELSE r

cast_simple(name, valid_type, attribute_value) ==
    except_KeyError(name, attribute_value, cast_call(name, valid_type, attribute_value))

\* The loop of lines 278-288 over the outcomes of the items, in order: the
\* first exception ends the loop; val is the sequence of the cast items.
cast_collection_values(outcomes) ==
    LET failing == {n \in 1..Len(outcomes) : outcomes[n].exc # "none"}
        last == IF failing = {} THEN Len(outcomes)
                ELSE CHOOSE n \in failing : \A m \in failing : n <= m
        done == Join([n \in 1..last |-> outcomes[n].calls], <<>>)
    IN IF failing = {}
       THEN Resolved([n \in 1..Len(outcomes) |-> outcomes[n].val], done)
       ELSE Raise(outcomes[last].exc, outcomes[last].field, outcomes[last].value, done)

\* _cast_collection_item (lines 268-276) for every item of the collection.
cast_collection_items(name, valid_type, items) ==
    cast_collection_values([n \in 1..Len(items) |-> cast_call(name, valid_type, items[n])])

\* A collection that is always built as a list.
collection_type_list(annotation, cast) ==
    IF cast.exc # "none" THEN cast ELSE Resolved(ListV(cast.val), cast.calls)

\* Lines 290-292: collection_type(cast_collection_values), list or tuple.
collection_type(annotation, cast) ==
    IF cast.exc # "none" THEN cast
    ELSE IF get_origin(annotation) = "List" THEN Resolved(ListV(cast.val), cast.calls)
    ELSE Resolved(TupleV(cast.val), cast.calls)

\* The first of the valid types, NoneType or not.
first_valid_type(valid_types) == valid_types[1]

\* Lines 303-305: next(filter(lambda x: x != type(None), valid_types)).
not_NoneType(valid_types) == SelectSeq(valid_types, LAMBDA t : t # NoneType)[1]

\* Lines 256-310: the built-in cast of a value that failed the type check.
builtin_cast(name, annotation, attribute_value) ==
    IF is_custom_type(annotation)
    THEN LET valid_types == get_custom_type_classes(annotation)
         IN IF valid_types.exc # "none"
            THEN Raise(valid_types.exc, "", NoValue, <<>>)
            ELSE IF is_collection(annotation)
            THEN LET items == IF Kind(attribute_value) \in {"list", "tuple"}
                              THEN Payload(attribute_value) ELSE <<attribute_value>>
                 IN collection_type(annotation,
                        cast_collection_items(name, valid_types.types[1], items))
            ELSE cast_simple(name, not_NoneType(valid_types.types), attribute_value)
    ELSE cast_simple(name, annotation, attribute_value)

(***************************************************************************)
(* The class configuration that __init__ of this revision does not read    *)
(* yet (the tests configure it: rename_fields, always_cast).  The rename   *)
(* pass moves the value supplied under an external name to the field name  *)
(* the entry gives, before anything else is done; an entry whose external  *)
(* name is not supplied is skipped.  A field of always_cast does not take  *)
(* the shortcut of a value that passes the type check.                     *)
(***************************************************************************)
rename_pass(kw) ==
    LET moved == DOMAIN rename_fields \cap DOMAIN kw
        targets == {rename_fields[x] : x \in moved}
    IN [name \in (DOMAIN kw \ moved) \cup targets |->
            IF name \in targets
            THEN kw[CHOOSE x \in moved : rename_fields[x] = name]
            ELSE kw[name]]

is_always_cast(name) == name \in always_cast

\* Lines 172-181 with the `continue` missing: every value goes on to the
\* casters.
passes_type_check_never(attribute_value, annotation) == FALSE

\* A type check that None never passes.
passes_type_check_not_None(attribute_value, annotation) ==
    attribute_value # None /\ check_type(attribute_value, annotation)

\* Lines 172-181: check_type returned (TRUE) or raised TypeError (FALSE).
passes_type_check(attribute_value, annotation) ==
    check_type(attribute_value, annotation)

\* A lookup for which a key that holds None is no key.
is_supplied_not_None(name, kw) == name \in DOMAIN kw /\ kw[name] # None

\* Lines 155-158: kwargs[annotated_attribute] returns, or raises KeyError.
is_supplied(name, kw) == name \in DOMAIN kw

\* Lines 152-310: one pass of the main loop, for the field `name`.  An
\* unsupplied field gets attribute_value None (line 158) and, when it has a
\* default, goes on to the type check with that None.
field_step(name, declared, kw, defaulted_attributes) ==
    LET annotation == parse_annotation(declared)
        supplied == is_supplied(name, kw)
        attribute_value == IF supplied THEN kw[name] ELSE None
    IN IF ~supplied /\ ~DictHas(defaulted_attributes, name)
       THEN IF ~Getattr(SET_MISSING_NONE)
            THEN Raise("MissingArgument", name, NoValue, <<>>)
            ELSE Resolved(None, <<>>)
       ELSE IF ~is_always_cast(name) /\ passes_type_check(attribute_value, annotation)
       THEN Resolved(attribute_value, <<>>)
       ELSE LET chosen == select_caster(name, annotation)
            IN IF chosen.exc # "none"
               THEN Raise(chosen.exc, chosen.field, NoValue, <<>>)
               ELSE IF chosen.caster = "builtin"
               THEN builtin_cast(name, annotation, attribute_value)
               ELSE invoke_override(chosen.caster, name, attribute_value)

(***************************************************************************)
(* The classes and the requests of the model.                              *)
(***************************************************************************)
Text1 == <<"1">>
TextA == <<"a">>
TextD == <<"d">>

T_int == Class("int")
T_str == Class("str")
T_float == Class("float")
T_bytes == Class("bytes")
OptionalInt == UnionOf(<<T_int, NoneType>>)
UnionNoneStr == UnionOf(<<NoneType, T_str>>)
ListStr == ListOf(T_str)
TupleInt == TupleOf(<<T_int>>)
ListBytes == ListOf(T_bytes)
\* Declarations that get_custom_type_classes refuses.
UnionIntStr == UnionOf(<<T_int, T_str>>)
UnionIntStrNone == UnionOf(<<T_int, T_str, NoneType>>)
OptionalListStr == UnionOf(<<ListStr, NoneType>>)
ListListStr == ListOf(ListStr)

\* The declared types of a one-field class.
Annotations ==
    {T_int, T_str, T_float, T_bytes, OptionalInt, UnionNoneStr, ListStr, TupleInt,
     ListBytes, UnionIntStr, UnionIntStrNone, OptionalListStr, ListListStr, Callable}

\* The class attribute of a field: NoValue is "no default".
Defaults == {NoValue, IntV(2), Str(TextD)}

Flags == {"unset", "True", "False"}

\* A __type_cast_functions__ with a one-parameter function for int and a
\* three-parameter function for List[str].
TypeCasters == [t \in {T_int, ListStr} |-> IF t = T_int THEN 1 ELSE 3]

\* The items of a supplied list or tuple, and the supplied values.
Items == {None, IntV(1), Str(TextA)}
RECURSIVE SeqsUpTo(_, _)
SeqsUpTo(S, n) ==
    IF n = 0 THEN {<<>>}
    ELSE LET shorter == SeqsUpTo(S, n - 1)
         IN shorter \cup {Append(q, x) : q \in {p \in shorter : Len(p) = n - 1}, x \in S}
Scalars ==
    {None, Bool(TRUE), IntV(1), FloatV(FALSE, 15), Str(Text1), Str(TextA),
     BytesV(Text1)}
SuppliedValues ==
    Scalars \cup {ListV(q) : q \in SeqsUpTo(Items, MaxLen)}
            \cup {TupleV(q) : q \in SeqsUpTo(Items, MaxLen)}

\* The values a request supplies to a field of a two-field class, and the
\* value of a key that is no field.
PairValues == {IntV(1), Str(TextA)}
PairTypes == {T_int, T_bytes, T_str}
ExtraNames == {"x", "y"}

DefaultsMap(names, d) ==
    LET having == {n \in names : d[n] # NoValue} IN [n \in having |-> d[n]]

\* A class with the single field a, any declared type, default and casters.
InitSingle ==
    \E t \in Annotations, d \in Defaults, m \in BOOLEAN, f \in {0, 1, 3},
       tc \in BOOLEAN, smn \in Flags, ac \in {{}, {"a"}} :
        /\ annotations = <<[name |-> "a", ann |-> t]>>
        /\ class_defaults = DefaultsMap({"a"}, [n \in {"a"} |-> d])
        /\ methods = IF m THEN {"a"} ELSE {}
        /\ field_cast_functions = IF f = 0 THEN EmptyMap ELSE [n \in {"a"} |-> f]
        /\ type_cast_functions = IF tc THEN TypeCasters ELSE EmptyMap
        /\ SET_MISSING_NONE = smn
        /\ IGNORE_EXTRA = "unset"
        /\ rename_fields = EmptyMap
        /\ always_cast = ac

\* A class with the fields a and b; the fields of `both` have a method and
\* a field function.
InitPair ==
    \E ta \in PairTypes, tb \in PairTypes, da \in Defaults, db \in Defaults,
       both \in {{}, {"a"}, {"b"}}, smn \in {"True", "False"},
       ie \in {"unset", "False"}, rf \in {EmptyMap, [n \in {"x"} |-> "a"]} :
        /\ annotations = <<[name |-> "a", ann |-> ta], [name |-> "b", ann |-> tb]>>
        /\ class_defaults =
                DefaultsMap({"a", "b"}, [n \in {"a", "b"} |-> IF n = "a" THEN da ELSE db])
        /\ methods = both
        /\ field_cast_functions = [n \in both |-> 1]
        /\ type_cast_functions = EmptyMap
        /\ SET_MISSING_NONE = smn
        /\ IGNORE_EXTRA = ie
        /\ rename_fields = rf
        /\ always_cast = {}

\* No construction is running.
Idle ==
    /\ pc = "idle"
    /\ request = EmptyMap
    /\ kwargs = EmptyMap
    /\ new_class_attributes = <<>>
    /\ i = 0
    /\ j = 1
    /\ self_dict = <<>>
    /\ raised = NoException
    /\ calls = <<>>

\* annotation_tools has not been called.
NotCalled == [exc |-> "pending", types |-> <<>>]

\* value_cast has not been called on its own.
NoCast ==
    /\ cast_arg = None
    /\ casts = <<>>

Init ==
    /\ InitSingle \/ InitPair
    /\ Idle
    /\ declared_type = NoneAnnotation
    /\ type_classes = NotCalled
    /\ parsed = <<>>
    /\ NoCast
    /\ history = <<>>

\* The keyword arguments of one call.
Requests ==
    IF Len(annotations) = 1
    THEN {EmptyMap} \cup {[n \in {"a"} |-> v] : v \in SuppliedValues}
    ELSE UNION {[fs \cup xs -> PairValues] : fs \in SUBSET {"a", "b"},
                                            xs \in SUBSET ExtraNames}

(***************************************************************************)
(* The steps of CastDataClass.__init__.                                    *)
(***************************************************************************)
\* An __init__ that looks for unexpected keyword arguments before it checks
\* the defaults.
Begin_unexpected_first(kw) ==
    /\ pc = "idle"
    /\ request' = kw
    /\ kwargs' = rename_pass(kw)
    /\ LET defaulted_attributes == get_defaulted_attributes(rename_pass(kw))
           checked == type_check_defaulted_values(defaulted_attributes)
           unexpected_attributes == get_unexpected_attributes(rename_pass(kw))
       IN IF unexpected_attributes # {} /\ ~Getattr(IGNORE_EXTRA)
          THEN /\ raised' = Exception("UnexpectedArgument", "", NoValue,
                                      unexpected_attributes)
               /\ pc' = "raised"
               /\ UNCHANGED new_class_attributes
          ELSE IF checked.exc # "none"
          THEN /\ raised' = checked
               /\ pc' = "raised"
               /\ UNCHANGED new_class_attributes
          ELSE /\ raised' = NoException
               /\ pc' = "loop"
               /\ new_class_attributes' = defaulted_attributes
    /\ i' = IF pc' = "loop" THEN 1 ELSE 0
    /\ UNCHANGED <<j, self_dict, calls, class_vars, tool_vars, cast_vars, history_vars>>

\* Lines 129-149: the call, the check of the defaults that will be used and
\* the check for unexpected keyword arguments.
Begin(kw) ==
    /\ pc = "idle"
    /\ request' = kw
    /\ kwargs' = rename_pass(kw)
    /\ LET defaulted_attributes == get_defaulted_attributes(rename_pass(kw))
           checked == type_check_defaulted_values(defaulted_attributes)
           unexpected_attributes == get_unexpected_attributes(rename_pass(kw))
       IN IF checked.exc # "none"
          THEN /\ raised' = checked
               /\ pc' = "raised"
               /\ UNCHANGED new_class_attributes
          ELSE IF unexpected_attributes # {} /\ ~Getattr(IGNORE_EXTRA)
          THEN /\ raised' = Exception("UnexpectedArgument", "", NoValue,
                                      unexpected_attributes)
               /\ pc' = "raised"
               /\ new_class_attributes' = defaulted_attributes
          ELSE /\ raised' = NoException
               /\ pc' = "loop"
               /\ new_class_attributes' = defaulted_attributes
    /\ i' = IF pc' = "loop" THEN 1 ELSE 0
    /\ UNCHANGED <<j, self_dict, calls, class_vars, tool_vars, cast_vars, history_vars>>

\* A loop that sets the attribute on the instance as soon as it is resolved.
store_resolved_setattr(attributes, instance, name, val) ==
    [attributes |-> DictSet(attributes, name, val),
     instance |-> DictSet(instance, name, val)]

\* Lines 167, 174, 211, 223, 234, 290, 306, 310: a resolved value goes into
\* new_class_attributes; the instance is not touched.
store_resolved(attributes, instance, name, val) ==
    [attributes |-> DictSet(attributes, name, val), instance |-> instance]

\* Lines 152-310: one pass of the main loop.
LoopField ==
    /\ pc = "loop"
    /\ \E out \in {field_step(annotations[i].name, annotations[i].ann, kwargs,
                             new_class_attributes)} :
          /\ calls' = calls \o out.calls
          /\ IF out.exc # "none"
             THEN /\ raised' = Exception(out.exc, out.field, out.value, {})
                  /\ pc' = "raised"
                  /\ UNCHANGED <<new_class_attributes, i, self_dict>>
             ELSE /\ new_class_attributes' =
                        store_resolved(new_class_attributes, self_dict, annotations[i].name,
                                       out.val).attributes
                  /\ self_dict' =
                        store_resolved(new_class_attributes, self_dict, annotations[i].name,
                                       out.val).instance
                  /\ i' = i + 1
                  /\ pc' = IF i = Len(annotations) THEN "apply" ELSE "loop"
                  /\ UNCHANGED raised
    /\ UNCHANGED <<request, kwargs, j, class_vars, tool_vars, cast_vars, history_vars>>

\* A closing loop that sets only the values the request supplied.
Setattr_supplied_only ==
    /\ pc = "apply"
    /\ LET item == new_class_attributes[j]
       IN /\ self_dict' = IF item.key \in DOMAIN kwargs
                             THEN DictSet(self_dict, item.key, item.val)
                             ELSE self_dict
          /\ j' = j + 1
          /\ pc' = IF j = Len(new_class_attributes) THEN "done" ELSE "apply"
    /\ UNCHANGED <<request, kwargs, new_class_attributes, i, raised, calls, class_vars,
                   tool_vars, cast_vars, history_vars>>

\* A closing loop that sets the attribute on the class, where the defaults
\* live: setattr(type(self), name, value).
Setattr_on_class ==
    /\ pc = "apply"
    /\ LET item == new_class_attributes[j]
       IN /\ self_dict' = DictSet(self_dict, item.key, item.val)
          /\ class_defaults' =
                [name \in DOMAIN class_defaults \cup {item.key} |->
                    IF name = item.key THEN item.val ELSE class_defaults[name]]
          /\ j' = j + 1
          /\ pc' = IF j = Len(new_class_attributes) THEN "done" ELSE "apply"
    /\ UNCHANGED <<request, kwargs, new_class_attributes, i, raised, calls, annotations,
                   methods, field_cast_functions, type_cast_functions, SET_MISSING_NONE,
                   IGNORE_EXTRA, rename_fields, always_cast, tool_vars, cast_vars,
                   history_vars>>

\* Lines 312-313: one setattr of the closing loop.
Setattr ==
    /\ pc = "apply"
    /\ LET item == new_class_attributes[j]
       IN /\ self_dict' = DictSet(self_dict, item.key, item.val)
          /\ j' = j + 1
          /\ pc' = IF j = Len(new_class_attributes) THEN "done" ELSE "apply"
    /\ UNCHANGED <<request, kwargs, new_class_attributes, i, raised, calls, class_vars,
                   tool_vars, cast_vars, history_vars>>

\* __init__ is left, with the instance or with the exception; its locals are
\* gone and the class is ready for the next call.
Leave ==
    /\ pc \in {"done", "raised"}
    /\ pc' = "idle"
    /\ request' = EmptyMap
    /\ kwargs' = EmptyMap
    /\ new_class_attributes' = <<>>
    /\ i' = 0
    /\ j' = 1
    /\ self_dict' = <<>>
    /\ raised' = NoException
    /\ calls' = <<>>
    /\ UNCHANGED <<class_vars, tool_vars, cast_vars>>

Return ==
    /\ Leave
    /\ UNCHANGED history_vars

Next ==
    \/ \E kw \in Requests : Begin(kw)
    \/ LoopField
    \/ Setattr
    \/ Return

Spec == Init /\ [][Next]_vars

(***************************************************************************)
(* annotation_tools.get_custom_type_classes on its own, for the            *)
(* annotations of the typing module: Union of two to MaxUnion different    *)
(* types (typing flattens a Union in a Union and drops a repeated type),   *)
(* List of one type, Tuple of one to MaxTuple types, Dict and Callable.    *)
(* parse_annotation is given these, the plain classes and None, and then   *)
(* its own result, up to MaxParse calls.                                   *)
(***************************************************************************)
MaxUnion == 3
MaxTuple == 2
MaxParse == 2

DictOf(k, v) == [form |-> "Dict", name |-> "Dict", args |-> <<k, v>>]

UnionArgs == {T_int, T_str, NoneType, ListStr}
CollectionArgs == {T_int, T_str, NoneType, ListStr, OptionalInt}
Different(q) == \A a, b \in 1..Len(q) : a # b => q[a] # q[b]
CustomTypes ==
    {UnionOf(q) : q \in {p \in SeqsUpTo(UnionArgs, MaxUnion) : Len(p) >= 2 /\ Different(p)}}
        \cup {ListOf(t) : t \in CollectionArgs}
        \cup {TupleOf(q) : q \in SeqsUpTo(CollectionArgs, MaxTuple) \ {<<>>}}
        \cup {Callable, DictOf(T_str, T_int)}

\* The annotations that are no typing form: classes, and None.
PlainTypes == {NoneAnnotation, NoneType, T_int, T_str, T_float, T_bytes}

InitTypes ==
    /\ annotations = <<>>
    /\ class_defaults = EmptyMap
    /\ methods = {}
    /\ field_cast_functions = EmptyMap
    /\ type_cast_functions = EmptyMap
    /\ SET_MISSING_NONE = "unset"
    /\ IGNORE_EXTRA = "unset"
    /\ rename_fields = EmptyMap
    /\ always_cast = {}
    /\ Idle
    /\ declared_type \in CustomTypes \cup PlainTypes
    /\ type_classes = NotCalled
    /\ parsed = <<>>
    /\ NoCast
    /\ history = <<>>

\* One call of get_custom_type_classes(declared_type); it is called for the
\* typing forms only (classes.py, line 256).
GetCustomTypeClasses ==
    /\ is_custom_type(declared_type)
    /\ type_classes = NotCalled
    /\ type_classes' = get_custom_type_classes(declared_type)
    /\ UNCHANGED <<declared_type, parsed, class_vars, call_vars, cast_vars, history_vars>>

\* One call of parse_annotation, of declared_type or of the last result.
ParseAnnotation ==
    /\ Len(parsed) < MaxParse
    /\ parsed' = Append(parsed, parse_annotation(IF parsed = <<>> THEN declared_type
                                                  ELSE parsed[Len(parsed)]))
    /\ UNCHANGED <<declared_type, type_classes, class_vars, call_vars, cast_vars, history_vars>>

NextTypes ==
    \/ GetCustomTypeClasses
    \/ ParseAnnotation

SpecTypes == InitTypes /\ [][NextTypes]_vars

(***************************************************************************)
(* value_cast.cast_simple_type on its own: a value is cast to str, int or  *)
(* float, and the result is cast again, up to MaxCasts casts.  The values  *)
(* are None, the booleans, the integers of -MaxInt..MaxInt, two floats and *)
(* the texts of up to MaxText characters of TextChars.                     *)
(***************************************************************************)
MaxInt == 12
MaxText == 3
MaxCasts == 2

TextChars == {"0", "1", "-", "+", " ", "a"}
CastArgs ==
    {None, Bool(TRUE), Bool(FALSE), FloatV(FALSE, 15), FloatV(TRUE, 15)}
        \cup {IntV(n) : n \in (0 - MaxInt)..MaxInt}
        \cup {Str(q) : q \in SeqsUpTo(TextChars, MaxText)}
CastTargets == {T_str, T_int, T_float}

InitCast ==
    /\ annotations = <<>>
    /\ class_defaults = EmptyMap
    /\ methods = {}
    /\ field_cast_functions = EmptyMap
    /\ type_cast_functions = EmptyMap
    /\ SET_MISSING_NONE = "unset"
    /\ IGNORE_EXTRA = "unset"
    /\ rename_fields = EmptyMap
    /\ always_cast = {}
    /\ Idle
    /\ declared_type = NoneAnnotation
    /\ type_classes = NotCalled
    /\ parsed = <<>>
    /\ cast_arg \in CastArgs
    /\ casts = <<>>
    /\ history = <<>>

\* The value the next cast is given.
CastValue == IF casts = <<>> THEN cast_arg ELSE casts[Len(casts)].val

\* One call of cast_simple_type(expected_type, value, name).
CastSimpleType(expected_type) ==
    /\ Len(casts) < MaxCasts
    /\ IF casts = <<>> THEN TRUE ELSE casts[Len(casts)].exc = "none"
    /\ \E r \in {cast_simple_type(expected_type, CastValue)} :
          casts' = Append(casts, [target |-> expected_type.name, arg |-> CastValue,
                                  exc |-> r.exc, val |-> r.val])
    /\ UNCHANGED <<cast_arg, class_vars, call_vars, tool_vars, history_vars>>

NextCast == \E expected_type \in CastTargets : CastSimpleType(expected_type)

SpecCast == InitCast /\ [][NextCast]_vars

(***************************************************************************)
(* Constructions one after another against the same class, up to           *)
(* MaxConstructions of them, each recorded when __init__ is left.          *)
(***************************************************************************)
MaxConstructions == 2

SequenceTypes == {T_int, T_str, OptionalInt}
SequenceValues == {None, IntV(1), Str(TextA), ListV(<<IntV(1)>>)}
SequenceRequests == {EmptyMap} \cup {[n \in {"a"} |-> v] : v \in SequenceValues}

InitSequence ==
    /\ \E t \in SequenceTypes, d \in Defaults, m \in BOOLEAN, smn \in {"True", "False"} :
            /\ annotations = <<[name |-> "a", ann |-> t]>>
            /\ class_defaults = DefaultsMap({"a"}, [n \in {"a"} |-> d])
            /\ methods = IF m THEN {"a"} ELSE {}
            /\ SET_MISSING_NONE = smn
    /\ field_cast_functions = EmptyMap
    /\ type_cast_functions = EmptyMap
    /\ IGNORE_EXTRA = "unset"
    /\ rename_fields = EmptyMap
    /\ always_cast = {}
    /\ Idle
    /\ declared_type = NoneAnnotation
    /\ type_classes = NotCalled
    /\ parsed = <<>>
    /\ NoCast
    /\ history = <<>>

\* __init__ is left and the caller keeps what it got.
ReturnRecorded ==
    /\ Leave
    /\ history' = Append(history, [request |-> request, raised |-> raised,
                                    instance |-> self_dict])

NextSequence ==
    \/ \E kw \in SequenceRequests : Len(history) < MaxConstructions /\ Begin(kw)
    \/ LoopField
    \/ Setattr
    \/ ReturnRecorded

SpecSequence == InitSequence /\ [][NextSequence]_vars

(***************************************************************************)
(* What the claims speak of.                                               *)
(***************************************************************************)
Fields == 1..Len(annotations)
FieldName(n) == annotations[n].name
Declared(n) == parse_annotation(annotations[n].ann)
Running == pc # "idle"
Supplied(n) == FieldName(n) \in DOMAIN kwargs
HasDefault(n) == FieldName(n) \in DOMAIN class_defaults
\* The loop has finished field n / has raised in field n.
Processed(n) == pc \in {"apply", "done"} \/ (pc \in {"loop", "raised"} /\ n < i)
FailedAt(n) == pc = "raised" /\ i = n
\* The main loop was entered (the two whole-request checks passed).
LoopEntered == pc \in {"loop", "apply", "done"} \/ (pc = "raised" /\ i >= 1)
CallsFor(n) == SelectSeq(calls, LAMBDA c : c.field = FieldName(n))
ResolvedValue(n) == DictGet(new_class_attributes, FieldName(n))
\* A type of the typing module.
Composite(t) == t.form \notin {"class", "None"}
\* The declarations that the built-in cast path refuses: a Union of more
\* than two types, a Union without NoneType, a typing form inside a Union or
\* as the first item type of a List or Tuple, any other typing form.
DeclarationError(a) ==
    /\ Composite(a)
    /\ CASE a.form = "Union" ->
                \/ Len(a.args) > 2
                \/ \A k \in 1..Len(a.args) : a.args[k] # NoneType
                \/ \E k \in 1..Len(a.args) : Composite(a.args[k])
          [] a.form \in {"List", "Tuple"} -> Composite(a.args[1])
          [] OTHER -> TRUE
SupportedDeclaration(n) == ~DeclarationError(Declared(n))

(***************************************************************************)
(* C1: a declared field that has a default (one that type-checks) and is   *)
(* not supplied resolves to exactly that default; its pass of the loop     *)
(* does not fail and no override or built-in caster is called for it.      *)
(***************************************************************************)
C1_DefaultedFieldResolvesToDefault ==
    \A n \in Fields :
        (Running /\ HasDefault(n) /\ ~Supplied(n)
            /\ check_type(class_defaults[FieldName(n)], annotations[n].ann))
        => /\ ~FailedAt(n)
           /\ CallsFor(n) = <<>>
           /\ Processed(n) => ResolvedValue(n) = class_defaults[FieldName(n)]

\* The value the loop works on for field n (line 156, line 158).
AttributeValue(n) == IF Supplied(n) THEN kwargs[FieldName(n)] ELSE None
\* The loop reached field n: it finished it or raised in it.
Reached(n) == Processed(n) \/ FailedAt(n)
\* The supplied value of field n does not pass the type check.
NeedsCast(n) == Supplied(n) /\ ~check_type(kwargs[FieldName(n)], Declared(n))
\* The override definitions of the class, as the claims rank them.
HasMethod(n) == FieldName(n) \in methods
HasFieldCaster(n) == FieldName(n) \in DOMAIN field_cast_functions
HasTypeCaster(n) == Declared(n) \in DOMAIN type_cast_functions
Ambiguous(n) == HasMethod(n) /\ HasFieldCaster(n)
Chosen(n) ==
    IF HasMethod(n) THEN "method"
    ELSE IF HasFieldCaster(n) THEN "field"
    ELSE IF HasTypeCaster(n) THEN "type"
    ELSE "builtin"
\* The chosen caster is a function of one parameter.
OneParameter(n) ==
    CASE Chosen(n) = "field" -> field_cast_functions[FieldName(n)] = 1
      [] Chosen(n) = "type" -> type_cast_functions[Declared(n)] = 1
      [] OTHER -> TRUE

(***************************************************************************)
(* C2: fast path, for a class with always_cast empty.  A supplied value    *)
(* that already conforms to the declared type of its field (None for an    *)
(* Optional/Union field included) resolves to that value unchanged; the    *)
(* pass does not fail and no caster at all (method, field function, type   *)
(* function, built-in) is called for it.                                   *)
(***************************************************************************)
C2_FastPathKeepsValue ==
    \A n \in Fields :
        (Running /\ always_cast = {} /\ Supplied(n)
            /\ check_type(kwargs[FieldName(n)], Declared(n)))
        => /\ ~FailedAt(n)
           /\ CallsFor(n) = <<>>
           /\ Processed(n) => ResolvedValue(n) = kwargs[FieldName(n)]

\* None supplied to an Optional/Union field of a class that defines override
\* casters for it: the construction is done and the field holds None.
C2_Witness ==
    \E n \in Fields :
        /\ pc = "done"
        /\ Supplied(n)
        /\ Declared(n).form = "Union"
        /\ kwargs[FieldName(n)] = None
        /\ HasFieldCaster(n)
        /\ DictGet(self_dict, FieldName(n)) = None

(***************************************************************************)
(* C3: precedence.  When a supplied value needs a cast and the overrides   *)
(* are not ambiguous, the only caster ever called for the field is the one *)
(* of highest precedence that exists: method, else field function, else    *)
(* type function keyed by the declared type, else built-in.  The field is  *)
(* resolved by that caster, and an override that exists keeps the built-in *)
(* caster and every lower override from being called.                      *)
(***************************************************************************)
C3_CasterPrecedence ==
    \A n \in Fields :
        (Running /\ NeedsCast(n) /\ ~Ambiguous(n) /\ Reached(n))
        => /\ \A c \in 1..Len(CallsFor(n)) : CallsFor(n)[c].caster = Chosen(n)
           /\ (Chosen(n) # "builtin" /\ OneParameter(n)) => Len(CallsFor(n)) = 1
           /\ (Chosen(n) # "builtin" /\ ~OneParameter(n)) => ~Processed(n)

\* A field with a field function and a type function for its declared type
\* was resolved by the field function.
C3_Witness ==
    \E n \in Fields :
        /\ pc = "done"
        /\ NeedsCast(n)
        /\ HasFieldCaster(n)
        /\ HasTypeCaster(n)
        /\ CallsFor(n) = <<CallOf("field", FieldName(n), kwargs[FieldName(n)], "")>>

C5_OverrideOutcomeVerbatim ==
    \A n \in Fields :
        (Running /\ NeedsCast(n) /\ ~Ambiguous(n) /\ Reached(n)
            /\ Chosen(n) # "builtin" /\ OneParameter(n))
        => LET given == kwargs[FieldName(n)]
               outcome == OverrideCaster(given)
           IN /\ CallsFor(n) = <<CallOf(Chosen(n), FieldName(n), given, "")>>
              /\ IF outcome.exc = "none"
                 THEN Processed(n) /\ ResolvedValue(n) = outcome.val
                 ELSE FailedAt(n) /\ raised.exc = outcome.exc
                        /\ raised.exc # "CastFailed"

\* An override returned a value that is not of the declared type and the
\* instance holds it.
C5_Witness ==
    \E n \in Fields :
        /\ pc = "done"
        /\ NeedsCast(n)
        /\ Chosen(n) = "method"
        /\ ~check_type(DictGet(self_dict, FieldName(n)), Declared(n))
        /\ DictGet(self_dict, FieldName(n)) = OverrideCaster(kwargs[FieldName(n)]).val

(***************************************************************************)
(* C6: a declared field that is neither supplied nor defaulted.  With      *)
(* SET_MISSING_NONE false no construction succeeds, the loop never gets    *)
(* past the field and fails in it with MissingArgument naming it.  With    *)
(* SET_MISSING_NONE true, or not set by the class, the field resolves to   *)
(* None, its pass does not fail and no caster is called for it.            *)
(***************************************************************************)
C6_MissingFieldPolicy ==
    \A n \in Fields :
        (Running /\ ~Supplied(n) /\ ~HasDefault(n))
        => IF SET_MISSING_NONE = "False"
           THEN /\ pc \notin {"apply", "done"}
                /\ ~Processed(n)
                /\ FailedAt(n) => /\ raised.exc = "MissingArgument"
                                  /\ raised.field = FieldName(n)
                /\ (pc = "raised" /\ LoopEntered) => \E m \in 1..n : FailedAt(m)
           ELSE /\ ~FailedAt(n)
                /\ CallsFor(n) = <<>>
                /\ Processed(n) => ResolvedValue(n) = None

\* The first field was resolved and the second, missing and without a
\* default, has raised MissingArgument.
C6_Witness ==
    /\ pc = "raised"
    /\ Processed(1)
    /\ FailedAt(2)
    /\ ~Supplied(2)
    /\ ~HasDefault(2)
    /\ raised.exc = "MissingArgument"

(***************************************************************************)
(* C7: supplied keys that are no declared field.  With IGNORE_EXTRA false  *)
(* the construction fails before the loop, with UnexpectedArgument naming  *)
(* every such key (unless the check of the defaults, which comes first,    *)
(* has failed).  With IGNORE_EXTRA true, or not set, they raise nothing,   *)
(* never reach the attributes or a caster, and every declared field gets   *)
(* the outcome it has when the request is made without them.               *)
(***************************************************************************)
ExtraKeys == DOMAIN kwargs \ AnnotatedNames
WithoutExtras == [name \in DOMAIN kwargs \cap AnnotatedNames |-> kwargs[name]]
C7_UnexpectedKeys ==
    (Running /\ ExtraKeys # {})
    => IF IGNORE_EXTRA = "False"
       THEN /\ pc = "raised"
            /\ ~LoopEntered
            /\ \/ raised.exc = "InvalidDefaultValue"
               \/ /\ raised.exc = "UnexpectedArgument"
                  /\ raised.names = ExtraKeys
       ELSE /\ raised.exc # "UnexpectedArgument"
            /\ DictKeys(new_class_attributes) \cap ExtraKeys = {}
            /\ DictKeys(self_dict) \cap ExtraKeys = {}
            /\ \A c \in 1..Len(calls) : calls[c].field \notin ExtraKeys
            /\ \A n \in Fields :
                LET alone == field_step(FieldName(n), annotations[n].ann, WithoutExtras,
                                        get_defaulted_attributes(WithoutExtras))
                IN /\ Processed(n) => alone.exc = "none" /\ ResolvedValue(n) = alone.val
                   /\ FailedAt(n) => alone.exc = raised.exc

\* Two unexpected keys, both named by the UnexpectedArgument raised.
C7_Witness ==
    /\ pc = "raised"
    /\ raised.exc = "UnexpectedArgument"
    /\ Cardinality(ExtraKeys) = 2
    /\ raised.names = ExtraKeys

(***************************************************************************)
(* C8, as claimed: a class with a field whose default does not type-check  *)
(* against the field's declared type fails with InvalidDefaultValue on     *)
(* every construction, also when a value for that field is supplied.       *)
(***************************************************************************)
BadDefault(n) ==
    HasDefault(n) /\ ~check_type(class_defaults[FieldName(n)], annotations[n].ann)
C8_InvalidDefaultAlwaysFails ==
    (Running /\ \E n \in Fields : BadDefault(n))
    => pc = "raised" /\ raised.exc = "InvalidDefaultValue"

(***************************************************************************)
(* C8, amended: such a class fails with InvalidDefaultValue, before the    *)
(* loop and whatever else is supplied, on every construction that does not *)
(* supply a value for that field; a default of a supplied field is not     *)
(* checked and never raises InvalidDefaultValue.                           *)
(***************************************************************************)
C8_InvalidDefaultOfUnsuppliedField ==
    \A n \in Fields :
        (Running /\ BadDefault(n))
        => IF Supplied(n)
           THEN ~(raised.exc = "InvalidDefaultValue" /\ raised.field = FieldName(n))
           ELSE /\ pc = "raised"
                /\ ~LoopEntered
                /\ raised.exc = "InvalidDefaultValue"
                /\ \E m \in 1..n : /\ BadDefault(m) /\ ~Supplied(m)
                                   /\ raised.field = FieldName(m)
                                   /\ raised.value = class_defaults[FieldName(m)]

\* InvalidDefaultValue was raised for a field although the request supplies
\* a value for the other field and an unexpected key.
C8_Witness ==
    \E n \in Fields :
        /\ pc = "raised"
        /\ raised.exc = "InvalidDefaultValue"
        /\ raised.field = FieldName(n)
        /\ BadDefault(n)
        /\ \E m \in Fields : m # n /\ Supplied(m)
        /\ ExtraKeys # {}

(***************************************************************************)
(* C9: all-or-nothing.  The instance holds no field value before every     *)
(* declared field has been resolved, and a construction that has raised    *)
(* (in whichever field) has set nothing on the instance.                   *)
(***************************************************************************)
C9_AllOrNothing ==
    /\ self_dict # <<>> =>
            /\ pc \in {"apply", "done"}
            /\ raised = NoException
            /\ \A n \in Fields : DictHas(new_class_attributes, FieldName(n))
    /\ pc = "raised" => self_dict = <<>>
    /\ pc = "done" => self_dict = new_class_attributes

\* The first field was resolved, the second has failed, and the instance
\* holds nothing.
C9_Witness ==
    /\ pc = "raised"
    /\ FailedAt(2)
    /\ DictHas(new_class_attributes, FieldName(1))
    /\ Supplied(1)
    /\ self_dict = <<>>

(***************************************************************************)
(* C10: on the built-in cast path to str, int or float (a simple field,    *)
(* the type of an Optional/Union field that is not NoneType, the items of  *)
(* a List/Tuple field), the first value whose conversion is not            *)
(* representable makes the construction fail with CastFailed carrying the  *)
(* field's name and that value; the conversion's own error never leaves.   *)
(***************************************************************************)
\* The value the loop casts for field n and what the built-in path casts
\* it to.
FailsTypeCheck(n) ==
    (Supplied(n) \/ HasDefault(n)) /\ ~check_type(AttributeValue(n), Declared(n))
CastTarget(n) ==
    CASE Declared(n).form = "class" -> Declared(n)
      [] Declared(n).form = "Union" ->
            IF Declared(n).args[1] = NoneType THEN Declared(n).args[2]
            ELSE Declared(n).args[1]
      [] Declared(n).args = <<>> -> Declared(n)
      [] OTHER -> Declared(n).args[1]
CastInputs(n) ==
    IF Declared(n).form \in {"List", "Tuple"}
            /\ Kind(AttributeValue(n)) \in {"list", "tuple"}
    THEN Payload(AttributeValue(n))
    ELSE <<AttributeValue(n)>>
Representable(target, value) ==
    CASE target.name = "int" -> PyInt(value).ok
      [] target.name = "float" -> PyFloat(value).ok
      [] OTHER -> TRUE
Unrepresentable(n) ==
    {c \in 1..Len(CastInputs(n)) : ~Representable(CastTarget(n), CastInputs(n)[c])}
C10_BuiltinFailureIsCastFailed ==
    \A n \in Fields :
        (Running /\ FailsTypeCheck(n) /\ Chosen(n) = "builtin" /\ Reached(n)
            /\ SupportedDeclaration(n)
            /\ CastTarget(n).form = "class"
            /\ CastTarget(n).name \in {"str", "int", "float"}
            /\ Unrepresentable(n) # {})
        => LET first == CHOOSE c \in Unrepresentable(n) :
                            \A d \in Unrepresentable(n) : c <= d
           IN /\ FailedAt(n)
              /\ raised = Exception("CastFailed", FieldName(n), CastInputs(n)[first], {})

\* The second item of a supplied tuple is the one that cannot be converted
\* and CastFailed reports it.
C10_Witness ==
    \E n \in Fields :
        /\ FailedAt(n)
        /\ Supplied(n)
        /\ Declared(n) = TupleInt
        /\ Len(CallsFor(n)) = 2
        /\ raised.exc = "CastFailed"
        /\ raised.value = Payload(kwargs[FieldName(n)])[2]

(***************************************************************************)
(* C11: on the built-in cast path, a supplied value that needs a cast to a *)
(* type outside str, int and float (the declared type of a simple field,   *)
(* the type of an Optional/Union field that is not NoneType, the item type *)
(* of a List/Tuple field) makes the construction fail in that field with   *)
(* UnsupportedCast, and with no other exception.                           *)
(***************************************************************************)
UnsupportedTarget(n) ==
    CastTarget(n).form = "class" /\ CastTarget(n).name \notin ANNOTATION_CAST_FUNCTIONS
C11_UnsupportedTargetIsUnsupportedCast ==
    \A n \in Fields :
        (Running /\ NeedsCast(n) /\ Chosen(n) = "builtin" /\ Reached(n)
            /\ UnsupportedTarget(n))
        => FailedAt(n) /\ raised.exc = "UnsupportedCast"

(***************************************************************************)
(* C12: a List/Tuple field on the built-in path whose supplied value needs *)
(* a cast, with an item type of str, int or float and items that can all   *)
(* be converted.  A value that is no list or tuple counts as one item.     *)
(* The pass does not fail and the field resolves to a list for List[..]    *)
(* and a tuple for Tuple[..], whatever was supplied, with as many items as *)
(* supplied, in the same order: an item already of the item type is the    *)
(* supplied item, every other item is its conversion.                      *)
(***************************************************************************)
Converted(target, value) ==
    CASE target.name = "int" -> PyInt(value).val
      [] target.name = "float" -> PyFloat(value).val
      [] target.name = "str" -> Str(PyStr(value))
CollectionCast(n) ==
    /\ NeedsCast(n)
    /\ Chosen(n) = "builtin"
    /\ Declared(n).form \in {"List", "Tuple"}
    /\ SupportedDeclaration(n)
    /\ ~UnsupportedTarget(n)
    /\ Unrepresentable(n) = {}
OptionalCast(n) ==
    /\ NeedsCast(n)
    /\ Chosen(n) = "builtin"
    /\ Declared(n).form = "Union"
    /\ SupportedDeclaration(n)
C13_OptionalCastTarget ==
    \A n \in Fields :
        (Running /\ OptionalCast(n) /\ Reached(n))
        => /\ CastTarget(n) # NoneType
           /\ CastTarget(n) \in {Declared(n).args[1], Declared(n).args[2]}
           /\ CallsFor(n) = <<CallOf("builtin", FieldName(n), kwargs[FieldName(n)],
                                     CastTarget(n).name)>>
           /\ IF Representable(CastTarget(n), kwargs[FieldName(n)])
              THEN /\ Processed(n)
                   /\ ResolvedValue(n) = Converted(CastTarget(n), kwargs[FieldName(n)])
              ELSE FailedAt(n) /\ raised.exc = "CastFailed"

\* An int was supplied to a field declared Union[None, str], NoneType
\* first, and the instance holds its text.
C13_Witness ==
    \E n \in Fields :
        /\ pc = "done"
        /\ OptionalCast(n)
        /\ Declared(n).args[1] = NoneType
        /\ kwargs[FieldName(n)] = IntV(1)
        /\ DictGet(self_dict, FieldName(n)) = Str(Text1)

(***************************************************************************)
(* C14: the rename pass.  For every entry external -> internal of          *)
(* rename_fields whose external name is supplied, the value is the         *)
(* supplied value of the field `internal`: it is type-checked and cast as  *)
(* that field's value (a value of the declared type is kept as it is, with *)
(* no caster called), the external name is no keyword argument any more    *)
(* and is never reported as unexpected.  An entry whose external name is   *)
(* not supplied changes nothing and raises nothing.                        *)
(***************************************************************************)
Renamed == DOMAIN rename_fields \cap DOMAIN request
FieldNamed(name) == CHOOSE n \in Fields : FieldName(n) = name
AlwaysCast(n) ==
    /\ FieldName(n) \in always_cast
    /\ Supplied(n)
    /\ check_type(kwargs[FieldName(n)], Declared(n))
InvalidDefaults == {n \in Fields : BadDefault(n) /\ ~Supplied(n)}
Refused == ExtraKeys # {} /\ IGNORE_EXTRA = "False"
StepOf(n) ==
    field_step(FieldName(n), annotations[n].ann, kwargs, get_defaulted_attributes(kwargs))
Failing == {n \in Fields : StepOf(n).exc # "none"}
C17_ErrorOrder ==
    Running =>
        IF InvalidDefaults # {}
        THEN /\ pc = "raised" /\ ~LoopEntered /\ calls = <<>>
             /\ raised.exc = "InvalidDefaultValue"
        ELSE IF Refused
        THEN /\ pc = "raised" /\ ~LoopEntered /\ calls = <<>>
             /\ raised.exc = "UnexpectedArgument"
        ELSE /\ LoopEntered
             /\ pc \in {"apply", "done"} => Failing = {}
             /\ \A n \in Failing : ~Processed(n)
             /\ pc = "raised" =>
                    /\ i \in Failing
                    /\ raised.exc = StepOf(i).exc
                    /\ \A m \in Fields :
                        /\ m < i => m \notin Failing /\ Processed(m)
                        /\ m > i => ~Processed(m) /\ CallsFor(m) = <<>>

\* A request with an unexpected key and two fields that cannot be resolved
\* has failed with UnexpectedArgument, before the loop.
C17_Witness ==
    /\ pc = "raised"
    /\ raised.exc = "UnexpectedArgument"
    /\ InvalidDefaults = {}
    /\ Refused
    /\ Failing = {1, 2}

(***************************************************************************)
(* C18: get_custom_type_classes raises UnsupportedCast for exactly these   *)
(* annotations of the typing module: a Union of more than two types, a     *)
(* Union without NoneType, a Union with a type of the typing module among  *)
(* its types, a List or Tuple with a type of the typing module among its   *)
(* item types, and everything that is no Union, List or Tuple; for every   *)
(* other annotation of the typing module it returns.                       *)
(***************************************************************************)
Called == type_classes # NotCalled
UnsupportedDeclaration(a) ==
    CASE a.form = "Union" ->
            \/ Len(a.args) > 2
            \/ \A k \in 1..Len(a.args) : a.args[k] # NoneType
            \/ \E k \in 1..Len(a.args) : Composite(a.args[k])
      [] a.form \in {"List", "Tuple"} -> \E k \in 1..Len(a.args) : Composite(a.args[k])
      [] OTHER -> TRUE
C18_UnsupportedExactly ==
    Called => (type_classes.exc = "UnsupportedCast" <=> UnsupportedDeclaration(declared_type))

(***************************************************************************)
(* C19: what get_custom_type_classes returns: for a List or Tuple exactly  *)
(* one type, which is no type of the typing module; for a Union its two    *)
(* types in the order of the declaration, exactly one of them NoneType and *)
(* the other no type of the typing module.                                 *)
(***************************************************************************)
C19_ResultShape ==
    (Called /\ type_classes.exc = "none")
    => IF declared_type.form \in {"List", "Tuple"}
       THEN Len(type_classes.types) = 1 /\ ~Composite(type_classes.types[1])
       ELSE /\ declared_type.form = "Union"
            /\ type_classes.types = declared_type.args
            /\ Len(type_classes.types) = 2
            /\ Cardinality({k \in 1..2 : type_classes.types[k] = NoneType}) = 1
            /\ \A k \in 1..2 : ~Composite(type_classes.types[k])

(***************************************************************************)
(* C20: when a supplied value needs a cast and the override that the       *)
(* precedence selects is a field function, or a type function of the       *)
(* declared type, that does not take exactly one parameter, the            *)
(* construction fails in that field with UnsupportedCast and the function  *)
(* is not called.                                                          *)
(***************************************************************************)
InvalidCallable(n) ==
    /\ NeedsCast(n)
    /\ ~HasMethod(n)
    /\ Chosen(n) \in {"field", "type"}
    /\ ~OneParameter(n)
C20_InvalidCallableIsUnsupportedCast ==
    \A n \in Fields :
        (Running /\ InvalidCallable(n) /\ Reached(n))
        => /\ FailedAt(n)
           /\ raised.exc = "UnsupportedCast"
           /\ CallsFor(n) = <<>>

(***************************************************************************)
(* The object contract of an instance: __repr__ and __eq__.                *)
(***************************************************************************)
\* _attribute_string (line 19): "key=repr(value)" for the items of
\* vars(self), in the order of the instance's __dict__, joined by ", ".
\* The field names of the model are one character long.
attribute_string(instance) ==
    Join([n \in 1..Len(instance) |->
            <<instance[n].key>> \o <<"=">> \o PyRepr(instance[n].val)], <<",", " ">>)

(***************************************************************************)
(* C21: the text of a constructed instance lists its field=value pairs in  *)
(* the order in which the fields are declared, for every class and every   *)
(* mix of supplied, defaulted and missing fields.                          *)
(***************************************************************************)
InDeclarationOrder ==
    Join([n \in Fields |->
            <<FieldName(n)>> \o <<"=">> \o PyRepr(DictGet(self_dict, FieldName(n)))],
         <<",", " ">>)
C21_ReprInDeclarationOrder ==
    pc = "done" => attribute_string(self_dict) = InDeclarationOrder

(***************************************************************************)
(* C22: the built-in conversions are the natural ones.  A cast to int maps *)
(* False to 0 and True to 1, maps a well-formed decimal text (blanks, an   *)
(* optional sign, digits, blanks) to the integer it denotes and fails with *)
(* CastFailed on every other text and on None.  A cast to str maps an      *)
(* integer to its decimal digits, with "-" in front of a negative one and  *)
(* no leading zero, and None to the text "None".  Hence an integer cast to *)
(* str and then to int is the integer itself.                              *)
(***************************************************************************)
Decimal(s) ==
    \E a, b \in 1..Len(s) :
        /\ a <= b
        /\ \A k \in a..b : IsDigit(s[k])
        /\ \A k \in (b + 1)..Len(s) : s[k] = " "
        /\ \A k \in 1..(a - 1) : s[k] = " " \/ (k = a - 1 /\ IsSign(s[k]))
Magnitude(n) == IF n < 0 THEN 0 - n ELSE n
Canonical(n) == (IF n < 0 THEN <<"-">> ELSE <<>>) \o NatDigits(Magnitude(n))
Denotes(s, n) ==
    LET digits == SelectSeq(s, IsDigit)
        minus == \E k \in 1..Len(s) : s[k] = "-"
    IN /\ \E z \in 0..Len(digits) : digits = [k \in 1..z |-> "0"] \o NatDigits(Magnitude(n))
       /\ n < 0 => minus
       /\ n > 0 => ~minus
NaturalCast(c) ==
    /\ (c.target = "int" /\ Kind(c.arg) = "bool")
            => c.exc = "none" /\ c.val = IntV(IF Payload(c.arg) THEN 1 ELSE 0)
    /\ (c.target = "int" /\ Kind(c.arg) = "str")
            => IF Decimal(Payload(c.arg))
               THEN /\ c.exc = "none"
                    /\ Kind(c.val) = "int"
                    /\ Denotes(Payload(c.arg), Payload(c.val))
               ELSE c.exc = "CastFailed"
    /\ (c.target = "int" /\ Kind(c.arg) = "NoneType") => c.exc = "CastFailed"
    /\ (c.target = "str" /\ Kind(c.arg) = "int")
            => c.exc = "none" /\ c.val = Str(Canonical(Payload(c.arg)))
    /\ (c.target = "str" /\ Kind(c.arg) = "NoneType")
            => c.exc = "none" /\ c.val = Str(<<"N", "o", "n", "e">>)
C22_NaturalConversions ==
    /\ \A k \in 1..Len(casts) : NaturalCast(casts[k])
    /\ (Len(casts) = 2 /\ Kind(cast_arg) = "int"
            /\ casts[1].target = "str" /\ casts[2].target = "int")
        => casts[2].exc = "none" /\ casts[2].val = cast_arg

\* A negative integer of two digits was cast to its text and back.
C22_Witness ==
    /\ cast_arg = IntV(0 - 10)
    /\ Len(casts) = 2
    /\ casts[1].target = "str"
    /\ casts[1].val = Str(<<"-", "1", "0">>)
    /\ casts[2].target = "int"
    /\ casts[2].val = IntV(0 - 10)

(***************************************************************************)
(* C23: parse_annotation turns the annotation None into NoneType and       *)
(* returns every other annotation, class or typing form, as it is; given   *)
(* its own result it returns that result.                                  *)
(***************************************************************************)
C23_ParseAnnotation ==
    /\ Len(parsed) >= 1 =>
            parsed[1] = IF declared_type = NoneAnnotation THEN NoneType ELSE declared_type
    /\ Len(parsed) >= 2 => parsed[2] = parsed[1]

\* The annotation None was parsed, and its result parsed again.
C23_Witness ==
    /\ declared_type = NoneAnnotation
    /\ parsed = <<NoneType, NoneType>>

ExactKind(n) ==
    /\ Supplied(n)
    /\ Chosen(n) = "builtin"
    /\ SupportedDeclaration(n)
    /\ Declared(n).form \in {"class", "List", "Tuple"}
    /\ CastTarget(n).name \in ANNOTATION_CAST_FUNCTIONS
C25_ExactKindTest ==
    \A n \in Fields :
        (Running /\ always_cast = {} /\ ExactKind(n) /\ Processed(n))
        => IF Declared(n).form = "class"
           THEN Kind(ResolvedValue(n)) = Declared(n).name
           ELSE \A c \in 1..Len(Payload(ResolvedValue(n))) :
                    Kind(Payload(ResolvedValue(n))[c]) = CastTarget(n).name

(***************************************************************************)
(* C26: a field whose key is supplied with the value None is supplied, not *)
(* missing.  It never raises MissingArgument, whatever SET_MISSING_NONE    *)
(* says, and its default is not used.  An Optional field keeps the None    *)
(* (always_cast empty).  Every other field casts it like any value of the  *)
(* wrong type; on the built-in path a str field resolves to the text       *)
(* "None", a None item of a List[str] field becomes the text "None", and   *)
(* an int or float field fails with CastFailed for the value None.         *)
(***************************************************************************)
TextNone == <<"N", "o", "n", "e">>
NoneSupplied(n) == Supplied(n) /\ kwargs[FieldName(n)] = None
C26_NoneIsSupplied ==
    \A n \in Fields :
        /\ (Running /\ NoneSupplied(n) /\ Reached(n))
            => /\ ~(FailedAt(n) /\ raised.exc = "MissingArgument")
               /\ ~DictHas(get_defaulted_attributes(kwargs), FieldName(n))
               /\ (Declared(n).form = "Union" /\ SupportedDeclaration(n) /\ always_cast = {})
                    => Processed(n) /\ ResolvedValue(n) = None /\ CallsFor(n) = <<>>
               /\ (Declared(n) = T_str /\ Chosen(n) = "builtin")
                    => Processed(n) /\ ResolvedValue(n) = Str(TextNone)
               /\ (Declared(n) \in {T_int, T_float} /\ Chosen(n) = "builtin")
                    => /\ FailedAt(n)
                       /\ raised = Exception("CastFailed", FieldName(n), None, {})
        /\ (Running /\ Supplied(n) /\ Processed(n) /\ Declared(n) = ListStr
                /\ Chosen(n) = "builtin" /\ Kind(kwargs[FieldName(n)]) \in {"list", "tuple"})
            => \A c \in 1..Len(Payload(kwargs[FieldName(n)])) :
                    Payload(kwargs[FieldName(n)])[c] = None
                    => Payload(ResolvedValue(n))[c] = Str(TextNone)

\* A class that refuses missing fields was built with None for a str field
\* that has a default: the field holds the text "None".
C26_Witness ==
    \E n \in Fields :
        /\ pc = "done"
        /\ SET_MISSING_NONE = "False"
        /\ NoneSupplied(n)
        /\ HasDefault(n)
        /\ Declared(n) = T_str
        /\ DictGet(self_dict, FieldName(n)) = Str(TextNone)

(***************************************************************************)
(* C27: a construction leaves the class as it is.  No step of a            *)
(* construction, successful or failed, changes the declared fields, their  *)
(* defaults, the flags or the override tables; and whatever constructions  *)
(* were made before it against the same class, every construction raises   *)
(* the exception and builds the instance that its keyword arguments give   *)
(* when the construction is made alone.                                    *)
(***************************************************************************)
AloneOutcome(kw) ==
    LET k == rename_pass(kw)
        d == get_defaulted_attributes(k)
        checked == type_check_defaulted_values(d)
        unexpected == get_unexpected_attributes(k)
        steps == [n \in Fields |-> field_step(FieldName(n), annotations[n].ann, k, d)]
        failing == {n \in Fields : steps[n].exc # "none"}
        first == CHOOSE n \in failing : \A m \in failing : n <= m
    IN IF checked.exc # "none" THEN [raised |-> checked, values |-> EmptyMap]
       ELSE IF unexpected # {} /\ ~Getattr(IGNORE_EXTRA)
       THEN [raised |-> Exception("UnexpectedArgument", "", NoValue, unexpected),
             values |-> EmptyMap]
       ELSE IF failing # {}
       THEN [raised |-> Exception(steps[first].exc, steps[first].field,
                                  steps[first].value, {}),
             values |-> EmptyMap]
       ELSE [raised |-> NoException,
             values |-> [name \in AnnotatedNames |-> steps[FieldNamed(name)].val]]
InstanceMap(instance) == [name \in DictKeys(instance) |-> DictGet(instance, name)]
SameAsAlone(made) ==
    /\ made.raised = AloneOutcome(made.request).raised
    /\ InstanceMap(made.instance) = AloneOutcome(made.request).values
C28_FullyPopulated ==
    pc = "done" =>
        /\ DictKeys(self_dict) = AnnotatedNames
        /\ Len(self_dict) = Cardinality(AnnotatedNames)

\* An instance was built from a request with two extra keys and no value
\* for either field, one of which has a default and the other has not.
C28_Witness ==
    /\ pc = "done"
    /\ Len(annotations) = 2
    /\ \A n \in Fields : ~Supplied(n)
    /\ \E n \in Fields : HasDefault(n)
    /\ \E n \in Fields : ~HasDefault(n)
    /\ Cardinality(ExtraKeys) = 2

(***************************************************************************)
(* C29: a supplied field that was resolved without an override caster      *)
(* holds, in the constructed instance, a value that conforms to its        *)
(* declared type: a value of exactly the declared class for a plain class, *)
(* None or a value of the other class for an Optional, and for a List or   *)
(* Tuple of one item type a list or a tuple whose items are all of exactly *)
(* that class.                                                             *)
(***************************************************************************)
SingleItemType(a) == a.form \in {"List", "Tuple"} /\ Len(a.args) = 1
ConformsTo(value, a) ==
    CASE a.form = "class" -> Kind(value) = a.name
      [] a.form = "Union" ->
            \E k \in 1..Len(a.args) :
                Kind(value) = IF a.args[k] = NoneType THEN "NoneType" ELSE a.args[k].name
      [] a.form \in {"List", "Tuple"} ->
            /\ Kind(value) = IF a.form = "List" THEN "list" ELSE "tuple"
            /\ \A c \in 1..Len(Payload(value)) : Kind(Payload(value)[c]) = a.args[1].name
      [] OTHER -> FALSE
NoOverrideUsed(n) == \A c \in 1..Len(CallsFor(n)) : CallsFor(n)[c].caster = "builtin"
C29_TypeConformant ==
    \A n \in Fields :
        (/\ pc = "done"
         /\ Supplied(n)
         /\ NoOverrideUsed(n)
         /\ SupportedDeclaration(n)
         /\ Declared(n).form \in {"class", "Union"} \/ SingleItemType(Declared(n)))
        => ConformsTo(DictGet(self_dict, FieldName(n)), Declared(n))

(***************************************************************************)
(* C30: constructing again from the values of a constructed instance.  For *)
(* a class without override casters, the values of an instance, supplied   *)
(* as the keyword arguments of a new construction, build an instance equal *)
(* to the first one, also when a missing field of the first instance was   *)
(* set to None under SET_MISSING_NONE.                                     *)
(***************************************************************************)
NoOverrideCasters == \A n \in Fields : Chosen(n) = "builtin"
\* A(**vars(first)) == first, by __eq__ on the instance dictionaries.
BuiltAgainEqual ==
    \E again \in {AloneOutcome(InstanceMap(self_dict))} :
        /\ again.raised = NoException
        /\ again.values = InstanceMap(self_dict)
NoneOnlyWhereDeclared ==
    \A n \in Fields :
        DictGet(self_dict, FieldName(n)) = None
        => check_type(None, Declared(n)) /\ FieldName(n) \notin always_cast
====
